---- MODULE Spec2Model ----
(***************************************************************************)
(* Model of the accounts app: registration with an activation email, the   *)
(* activation endpoint, login, the two token generators, and notes.        *)
(*                                                                         *)
(* Strings are modelled as tagged pairs <<tag, payload>>; the tag says     *)
(* which alphabet / syntax the string is written in, so that a decoder     *)
(* applied to a string of another syntax fails the way the Python code     *)
(* raises:                                                                 *)
(*   <<"dj",   [ts, pk, pwd, email]>>  Django's "<ts36>-<hmac>" token       *)
(*   <<"json", payload>>               json.dumps of a dict                *)
(*   <<"b64",  s>>                     urlsafe base64 of the string s      *)
(*   <<"iso",  t>>                     datetime.isoformat of instant t     *)
(*   <<"iso_naive", t>>                the same without its UTC offset     *)
(*   <<"txt",  name>>                  any other text                      *)
(*   <<"pbkdf2", pw>>                  a password hash                     *)
(***************************************************************************)
EXTENDS Integers, Sequences, FiniteSets, TLC

\* ------------------------------------------------------------------ bounds
MaxTime == 2
MaxUsers == 2
MaxNotes == 2
NumProcs == 2

\* timedelta(hours=1), in clock ticks
HOUR == 1

\* ------------------------------------------------------------------ inputs
\* An email is <<local part, domain>>.
Emails == { <<"a", "x.com">>, <<"A", "x.com">>, <<"a", "X.COM">> }
NoEmail == <<"", "">>
Passwords == { "Str0ng!Pass", "Other!Pass1" }
WeakPassword == "12345678"
NoPassword == ""
\* a password below the login form's minimal length, and an address without a domain
ShortPassword == "short"
BadEmail == <<"a", "">>

\* ------------------------------------------------------------------ state
VARIABLES
    users,      \* committed rows of the CustomUser table
    nextId,     \* the table's primary-key sequence
    now,        \* timezone.now()
    outbox,     \* activation mails handed to send_mail
    issued,     \* the last call of expiring_token_generator.make_token: its user, time and result
    resp,       \* the response the last step returned (NoResp when it was no request)
    pc,         \* per concurrent registration request: where it is
    req,        \* per concurrent registration request: its data, and whether it passed the
                \* existence check while another request for the same address had passed it
                \* and not yet written
    txrow,      \* per concurrent registration request: the row its open transaction inserted
    res,        \* per concurrent registration request: its outcome
    notes       \* rows of the Notes table

vars == <<users, nextId, now, outbox, issued, resp, pc, req, txrow, res, notes>>

Procs == 1..NumProcs

\* ------------------------------------------------------------------ codecs
Tag(s) == s[1]
Body(s) == s[2]

\* base64.urlsafe_b64encode(x.encode()).decode()
urlsafe_b64encode(s) == <<"b64", s>>
\* base64.urlsafe_b64decode raises on text that is not padded base64
CanB64Decode(s) == Tag(s) = "b64"
urlsafe_b64decode(s) == Body(s)

\* json.dumps / json.loads; the payload is a record
json_dumps(payload) == <<"json", payload>>
CanJsonLoad(s) == Tag(s) = "json"
json_loads(s) == Body(s)

\* datetime.isoformat / dateutil isoparse
isoformat(t) == <<"iso", t>>
CanIsoparse(s) == Tag(s) = "iso"
isoparse(s) == Body(s)
\* an ISO text without UTC offset parses to a naive datetime, and comparing the aware
\* timezone.now() with a naive datetime raises TypeError
IsNaive(s) == Tag(s) = "iso_naive"

\* django.contrib.auth.hashers: set_password / check_password
make_password(pw) == <<"pbkdf2", pw>>
check_password(pw, hash) == hash = make_password(pw)

\* BaseUserManager.normalize_email lowercases the domain part only
Lower(d) == IF d = "X.COM" THEN "x.com" ELSE d
\* the address taken as it was typed
normalize_email_raw(e) == e
normalize_email(e) == <<e[1], Lower(e[2])>>

\* urlsafe_base64_encode(force_bytes(pk)) and its inverse in the view
force_bytes(pk) == <<"num", pk>>
uid_encode(pk) == urlsafe_b64encode(force_bytes(pk))
\* a uidb64 path segment that is not base64, and one that decodes to no number
BadUid == <<"txt", "%%%">>
NonNumericUid == <<"b64", <<"txt", "abc">>>>
CanUidDecode(uidb64) == CanB64Decode(uidb64)
IsNumeric(s) == Tag(s) = "num"

\* ------------------------------------------------------------------ tokens
\* PasswordResetTokenGenerator.make_token: "<ts>-<hmac(pk, password, last_login, ts, email)>"
default_make_token(user, t) ==
    <<"dj", [ts |-> t, pk |-> user.pk, pwd |-> user.password, email |-> user.email]>>

\* CustomUser.generate_token
generate_token(user, t) == default_make_token(user, t)

\* make_token with the expiry offset subtracted instead of added
make_token_minus(user, t) ==
    LET token == default_make_token(user, t)
        expiration_time == t - HOUR
        payload == [token |-> token, expires_at |-> isoformat(expiration_time)]
    IN urlsafe_b64encode(json_dumps(payload))

\* ExpiringTokenGenerator.make_token
make_token(user, t) ==
    LET token == default_make_token(user, t)
        expiration_time == t + HOUR
        payload == [token |-> token, expires_at |-> isoformat(expiration_time)]
    IN urlsafe_b64encode(json_dumps(payload))

\* check_token with the expiry instant itself counted as expired (>= for >)
check_token_ge(user, token, t) ==
    IF ~CanB64Decode(token) THEN FALSE
    ELSE IF ~CanJsonLoad(urlsafe_b64decode(token)) THEN FALSE
    ELSE LET payload == json_loads(urlsafe_b64decode(token))
         IN IF ~({"token", "expires_at"} \subseteq DOMAIN payload) THEN FALSE
            ELSE IF ~CanIsoparse(payload.expires_at) THEN FALSE
            ELSE IF t >= isoparse(payload.expires_at) THEN FALSE ELSE TRUE

\* the try block of ExpiringTokenGenerator.check_token: "True", "False", or the class of the
\* exception the first failing statement raises (binascii.Error, UnicodeDecodeError and
\* JSONDecodeError are ValueErrors)
check_token_try(token, t) ==
    IF ~CanB64Decode(token) THEN "ValueError"
    ELSE IF ~CanJsonLoad(urlsafe_b64decode(token)) THEN "ValueError"
    ELSE LET payload == json_loads(urlsafe_b64decode(token))
         IN IF "token" \notin DOMAIN payload THEN "KeyError"
            ELSE IF "expires_at" \notin DOMAIN payload THEN "KeyError"
            ELSE IF IsNaive(payload.expires_at) THEN "TypeError"
            ELSE IF ~CanIsoparse(payload.expires_at) THEN "ValueError"
            ELSE LET token_value == payload.token
                     expires_at == isoparse(payload.expires_at)
                 IN IF t > expires_at THEN "False" ELSE "True"

\* the call with an except clause that catches ValueError only
check_token_call_narrow(user, token, t) ==
    LET r == check_token_try(token, t)
    IN IF r \in {"True", "False"} THEN r
       ELSE IF r = "ValueError" THEN "False"
       ELSE "raise"

\* what a call of check_token does: returns "True" or "False", or lets an exception out
\* ("raise").  except Exception: return False
check_token_call(user, token, t) ==
    LET r == check_token_try(token, t)
    IN IF r \in {"True", "False"} THEN r ELSE "False"

\* ExpiringTokenGenerator.check_token, as the condition of an if
check_token(user, token, t) == check_token_call(user, token, t) = "True"

\* ------------------------------------------------------------ registration
\* UniqueValidator(queryset=CustomUser.objects.all()): an exact match on the raw input
UniqueValidator(rows, email) == ~\E u \in rows : u.email = email

\* django.contrib.auth.password_validation.validate_password
validate_password(pw) == pw # WeakPassword

\* a validate that accepts every pair of passwords
validate_any(attrs) == {}

\* UserRegistrationSerializer.validate
validate(attrs) == IF attrs.password # attrs.password2 THEN {"password2"} ELSE {}

\* serializer.is_valid(): the field validators first, validate() only when all fields pass.
\* The result is the set of keys of serializer.errors.
is_valid_errors(rows, data) ==
    LET emailErr == IF data.email = NoEmail \/ ~UniqueValidator(rows, data.email)
                    THEN {"email"} ELSE {}
        pwErr == IF data.password = NoPassword \/ ~validate_password(data.password)
                 THEN {"password"} ELSE {}
        pw2Err == IF data.password2 = NoPassword THEN {"password2"} ELSE {}
        fieldErrs == emailErr \cup pwErr \cup pw2Err
    IN IF fieldErrs # {} THEN fieldErrs ELSE validate(data)

\* the flag columns of CustomUser, all with default=False
Flags == {"is_active", "is_staff", "is_superuser", "is_email_verify"}
\* model field default=False: the value a row gets for a flag that the keyword arguments do
\* not carry.  The keyword arguments are a set of <<name, value>> pairs.
flag_value(extra_field, name) ==
    IF \E kv \in extra_field : kv[1] = name
    THEN (CHOOSE kv \in extra_field : kv[1] = name)[2]
    ELSE FALSE

\* Meta.fields and the read_only extra_kwargs, as far as they name flags
MetaFields == {"is_active"}
ReadOnlyFields == {"is_active"}

\* validated_data with is_active left writable
validated_extra_writable(extra) == {kv \in extra : kv[1] \in MetaFields}

\* what serializer.validated_data keeps of the flags the request carried: input for a field
\* not in Meta.fields, or for a read-only field, is dropped
validated_extra(extra) == {kv \in extra : kv[1] \in MetaFields \ ReadOnlyFields}

\* UserCustomManager.create_user: the row that user.save() inserts
create_user(email, password, extra_field, pk, t) ==
    [pk |-> pk,
     email |-> normalize_email(email),
     password |-> make_password(password),
     is_active |-> flag_value(extra_field, "is_active"),
     is_staff |-> flag_value(extra_field, "is_staff"),
     is_superuser |-> flag_value(extra_field, "is_superuser"),
     is_email_verify |-> flag_value(extra_field, "is_email_verify"),
     date_joined |-> t]

\* the email column without its unique constraint
IntegrityError_none(rows, row) == FALSE

\* unique=True on CustomUser.email: the INSERT raises IntegrityError
IntegrityError(rows, row) == \E u \in rows : u.email = row.email

\* the mail send_activation_email builds
activation_mail(user, t) ==
    [to |-> user.email, uid |-> uid_encode(user.pk), token |-> generate_token(user, t)]

\* create without @transaction.atomic: the INSERT is committed on its own
atomic_exit_autocommit(rows, row, raised) == rows \cup {row}

\* @transaction.atomic on create: the rows after the block is left, with or without an exception
atomic_exit(rows, row, raised) == IF raised THEN rows ELSE rows \cup {row}

\* What the environment does to one registration request.
\*   "ok"         nothing fails
\*   "db_fault"   the INSERT raises something other than IntegrityError
\*   "mail_raise" building the mail raises (token, site lookup, reverse)
\*   "smtp_down"  the transport fails inside send_mail(fail_silently=True)
Envs == {"ok", "db_fault", "mail_raise", "smtp_down"}

\* request bodies; extra is what the body carries for the flag columns
RegData == [email : Emails \cup {NoEmail},
            password : {"Str0ng!Pass", WeakPassword},
            password2 : Passwords,
            extra : {{}}]
\* request bodies that also try to set flags
AllFlagsTrue == {<<f, TRUE>> : f \in Flags}
RegDataFlags == [email : Emails,
                 password : {"Str0ng!Pass", WeakPassword},
                 password2 : Passwords,
                 extra : {{}, {<<"is_active", TRUE>>}, {<<"is_email_verify", TRUE>>},
                          {<<"is_staff", TRUE>>, <<"is_superuser", TRUE>>}, AllFlagsTrue}]

\* the response of user_registration.post
RegResp(data, status, errors, cause, pk) ==
    [op |-> "register", data |-> data, status |-> status,
     errors |-> errors, cause |-> cause, pk |-> pk]

\* the fault of the INSERT left to propagate as it is: the view's except Exception answers
\* 400 with only a message
create_fault_propagated(data) ==
    RegResp(data, 400, {}, "Something went wrong", 0)

\* an exception of create_user other than IntegrityError: create raises
\* serializers.ValidationError('Something went wrong'), which the view's except
\* ValidationError answers with status 203 and e.detail
create_fault_response(data) ==
    RegResp(data, 203, {"non_field_errors"}, "Something went wrong", 0)

NoResp == [op |-> "none"]
NoReq == [data |-> [email |-> NoEmail, password |-> NoPassword, password2 |-> NoPassword,
                   extra |-> {}],
          raced |-> FALSE]

Init ==
    /\ users = {}
    /\ nextId = 1
    /\ now = 0
    /\ outbox = {}
    /\ issued = {}
    /\ resp = NoResp
    /\ pc = [p \in Procs |-> "idle"]
    /\ req = [p \in Procs |-> NoReq]
    /\ txrow = [p \in Procs |-> {}]
    /\ res = [p \in Procs |-> NoResp]
    /\ notes = {}

procVars == <<pc, req, txrow, res>>

\* user_registration.post, one request handled alone from start to end
Register(data, env) ==
    /\ nextId <= MaxUsers
    /\ LET errs == is_valid_errors(users, data)
           row == create_user(data.email, data.password, validated_extra(data.extra), nextId, now)
       IN IF errs # {}
          THEN /\ resp' = RegResp(data, 203, errs, "invalid", 0)
               /\ UNCHANGED <<users, nextId, outbox>>
          ELSE IF env = "db_fault"
          THEN /\ resp' = create_fault_response(data)
               /\ UNCHANGED <<users, nextId, outbox>>
          ELSE IF IntegrityError(users, row)
          THEN /\ resp' = RegResp(data, 203, {"non_field_errors"}, "Email is Already exists", 0)
               /\ UNCHANGED <<users, nextId, outbox>>
          ELSE /\ nextId' = nextId + 1
               /\ users' = atomic_exit(users, row, env = "mail_raise")
               /\ outbox' = IF env = "mail_raise" THEN outbox
                                                   ELSE outbox \cup {activation_mail(row, now)}
               /\ resp' = IF env = "mail_raise"
                          THEN RegResp(data, 203, {"email"}, "Failed to send activation email", row.pk)
                          ELSE IF env = "smtp_down"
                          THEN RegResp(data, 201, {}, "created, mail lost", row.pk)
                          ELSE RegResp(data, 201, {}, "created", row.pk)
    /\ UNCHANGED <<now, issued, procVars, notes>>

\* the clock
Tick ==
    /\ now < MaxTime
    /\ now' = now + 1
    /\ resp' = NoResp
    /\ UNCHANGED <<users, nextId, outbox, issued, procVars, notes>>

\* ------------------------------------------------------------- activation
\* texts a client can put in the token path segment without ever having been sent one
Garbage == <<"txt", "garbage">>
B64NotJson == urlsafe_b64encode(<<"txt", "not json">>)
ForgedToken ==
    urlsafe_b64encode(json_dumps([token |-> <<"txt", "x">>,
                                  expires_at |-> isoformat(MaxTime + HOUR)]))
\* payloads that lack a field, or whose expiry is no timestamp or carries no UTC offset
NoTokenField == urlsafe_b64encode(json_dumps([expires_at |-> isoformat(MaxTime + HOUR)]))
NoExpiryField == urlsafe_b64encode(json_dumps([token |-> <<"txt", "x">>]))
BadExpiry ==
    urlsafe_b64encode(json_dumps([token |-> <<"txt", "x">>,
                                  expires_at |-> <<"txt", "tomorrow">>]))
NaiveExpiry ==
    urlsafe_b64encode(json_dumps([token |-> <<"txt", "x">>,
                                  expires_at |-> <<"iso_naive", MaxTime + HOUR>>]))
MalformedTokens == {Garbage, B64NotJson, NoTokenField, NoExpiryField, BadExpiry, NaiveExpiry}
ForgedTokens == {Garbage, B64NotJson, ForgedToken}

MailedTokens == {m.token : m \in outbox}
IssuedTokens == {i.token : i \in issued}
Uids == {uid_encode(pk) : pk \in 1..MaxUsers} \cup {BadUid, NonNumericUid}

\* uid = force_str(urlsafe_base64_decode(uidb64)); get_object_or_404(CustomUser, pk=uid);
\* every exception leaves user = None.  The result is the set of rows found (none or one).
lookup_user(rows, uidb64) ==
    IF ~CanUidDecode(uidb64) THEN {}
    ELSE IF ~IsNumeric(urlsafe_b64decode(uidb64)) THEN {}
    ELSE {u \in rows : u.pk = Body(urlsafe_b64decode(uidb64))}

\* an activation that marks the email verified and leaves is_active as it is
activated_verify_only(user) == [user EXCEPT !.is_email_verify = TRUE]

\* an activation that also grants the staff flag
activated_staff(user) ==
    [user EXCEPT !.is_active = TRUE, !.is_email_verify = TRUE, !.is_staff = TRUE]

\* user.is_active = True; user.is_email_verify = True
activated(user) == [user EXCEPT !.is_active = TRUE, !.is_email_verify = TRUE]

\* the condition of the if in ActivateAccount.get
activation_accepts(rows, uidb64, token, t) ==
    \E user \in lookup_user(rows, uidb64) : check_token(user, token, t)

\* the response of ActivateAccount.get
ActResp(uidb64, token, status) ==
    [op |-> "activate", uid |-> uidb64, token |-> token, status |-> status,
     again |-> /\ resp.op = "activate"
               /\ resp.status = 200
               /\ resp.uid = uidb64
               /\ resp.token = token]

\* ActivateAccount.get
Activate(uidb64, token) ==
    /\ IF activation_accepts(users, uidb64, token, now)
       THEN LET user == CHOOSE u \in lookup_user(users, uidb64) : TRUE
            IN /\ users' = (users \ {user}) \cup {activated(user)}
               /\ resp' = ActResp(uidb64, token, 200)
       ELSE /\ resp' = ActResp(uidb64, token, 400)
            /\ UNCHANGED users
    /\ UNCHANGED <<nextId, now, outbox, issued, procVars, notes>>

\* a call of expiring_token_generator.make_token(user) for a stored account
MakeToken(pk) ==
    /\ \E user \in users :
          /\ user.pk = pk
          /\ issued' = {[user |-> pk, at |-> now, token |-> make_token(user, now)]}
          /\ issued' # issued
    /\ resp' = NoResp
    /\ UNCHANGED <<users, nextId, now, outbox, procVars, notes>>

\* user.set_password(pw); user.save() on a stored account
SetPassword(pk, pw) ==
    /\ \E user \in users :
          /\ user.pk = pk
          /\ ~check_password(pw, user.password)
          /\ users' = (users \ {user}) \cup {[user EXCEPT !.password = make_password(pw)]}
    /\ resp' = NoResp
    /\ UNCHANGED <<nextId, now, outbox, issued, procVars, notes>>

\* ------------------------------------------------------------------ login
\* django.contrib.auth.authenticate with ModelBackend: the row with that email, when the
\* password matches and the row is_active (user_can_authenticate); else None
authenticate(rows, email, password) ==
    {u \in rows : /\ u.email = email
                  /\ check_password(password, u.password)
                  /\ u.is_active}

\* serializers.EmailField: the text has the syntax of an address
EmailField(email) == email[1] # "" /\ email[2] # ""
\* password = CharField(min_length=8)
MinLength == 8

\* validate with the credential check made before the existence check
login_validate_authfirst(rows, email, password) ==
    IF email = NoEmail \/ password = NoPassword THEN "missing"
    ELSE IF ~EmailField(email) \/ Len(password) < MinLength THEN "field_error"
    ELSE IF authenticate(rows, email, password) = {} THEN "invalid"
    ELSE IF ~\E u \in rows : u.email = email THEN "not_found"
    ELSE LET user == CHOOSE u \in authenticate(rows, email, password) : TRUE
         IN IF ~user.is_email_verify THEN "unverified"
            ELSE IF ~user.is_active THEN "deactivated"
            ELSE "ok"

\* UserLoginSerializers field validation followed by validate
login_validate(rows, email, password) ==
    IF email = NoEmail \/ password = NoPassword THEN "missing"
    ELSE IF ~EmailField(email) \/ Len(password) < MinLength THEN "field_error"
    ELSE IF ~\E u \in rows : u.email = email THEN "not_found"
    ELSE IF authenticate(rows, email, password) = {} THEN "invalid"
    ELSE LET user == CHOOSE u \in authenticate(rows, email, password) : TRUE
         IN IF ~user.is_email_verify THEN "unverified"
            ELSE IF ~user.is_active THEN "deactivated"
            ELSE "ok"

\* RefreshToken.for_user(user) and its access token
session_tokens(user) ==
    [refresh |-> <<"jwt", [type |-> "refresh", user_id |-> user.pk]>>,
     access |-> <<"jwt", [type |-> "access", user_id |-> user.pk]>>]

\* create reached without is_valid() having been consulted
login_create_unchecked(rows, email, password) ==
    {session_tokens(u) : u \in {r \in rows : r.email = email}}

\* UserLoginSerializers.create: the tokens issued (none when validation failed)
login_create(rows, email, password) ==
    IF login_validate(rows, email, password) = "ok"
    THEN {session_tokens(u) : u \in authenticate(rows, email, password)}
    ELSE {}

\* UserLogin.post
Login(email, password) ==
    /\ resp' = [op |-> "login", email |-> email, password |-> password,
                outcome |-> login_validate(users, email, password),
                status |-> IF login_validate(users, email, password) = "ok" THEN 202 ELSE 400,
                tokens |-> login_create(users, email, password)]
    /\ UNCHANGED <<users, nextId, now, outbox, issued, procVars, notes>>

Next ==
    \/ \E data \in RegData, env \in Envs : Register(data, env)
    \/ \E uidb64 \in Uids, token \in MailedTokens \cup IssuedTokens \cup ForgedTokens :
          Activate(uidb64, token)
    \/ \E pk \in 1..MaxUsers : MakeToken(pk)
    \/ \E email \in Emails \cup {NoEmail}, password \in Passwords \cup {NoPassword} :
          Login(email, password)
    \/ Tick

Spec == Init /\ [][Next]_vars

\* -------------------------------------------- concurrent registrations
\* The same handler, taken by several requests at once.  A request is at
\*   "idle"      not yet received
\*   "valid"     is_valid() returned True (the existence check read the committed rows)
\*   "inserted"  create_user's INSERT is done inside the open transaction
\*   "done"      the response is returned (the transaction committed or rolled back)
rivals(p, data) ==
    {q \in Procs \ {p} : /\ pc[q] = "valid"
                          /\ normalize_email(req[q].data.email) = normalize_email(data.email)}

\* serializer.is_valid() of request p
RegValidate(p, data) ==
    /\ pc[p] = "idle"
    /\ LET errs == is_valid_errors(users, data)
       IN IF errs # {}
          THEN /\ pc' = [pc EXCEPT ![p] = "done"]
               /\ res' = [res EXCEPT ![p] = RegResp(data, 203, errs, "invalid", 0)]
               /\ UNCHANGED req
          ELSE /\ pc' = [pc EXCEPT ![p] = "valid"]
               /\ req' = [q \in Procs |->
                             IF q = p THEN [data |-> data, raced |-> rivals(p, data) # {}]
                             ELSE IF q \in rivals(p, data) THEN [req[q] EXCEPT !.raced = TRUE]
                             ELSE req[q]]
               /\ UNCHANGED res
    /\ UNCHANGED <<users, nextId, now, outbox, issued, resp, txrow, notes>>

\* the INSERT of create_user in request p's transaction.  A row with the same address that
\* another open transaction inserted makes the INSERT wait for that transaction's end.
RegInsert(p, fault) ==
    /\ pc[p] = "valid"
    /\ nextId <= MaxUsers
    /\ LET data == req[p].data
           row == create_user(data.email, data.password, validated_extra(data.extra), nextId, now)
       IN IF fault
          THEN /\ pc' = [pc EXCEPT ![p] = "done"]
               /\ res' = [res EXCEPT ![p] =
                             create_fault_response(data)]
               /\ UNCHANGED <<nextId, txrow>>
          ELSE IF IntegrityError(users, row)
          THEN /\ pc' = [pc EXCEPT ![p] = "done"]
               /\ res' = [res EXCEPT ![p] =
                             RegResp(data, 203, {"non_field_errors"}, "Email is Already exists", 0)]
               /\ UNCHANGED <<nextId, txrow>>
          ELSE /\ ~\E q \in Procs \ {p} : \E r \in txrow[q] : r.email = row.email
               /\ pc' = [pc EXCEPT ![p] = "inserted"]
               /\ txrow' = [txrow EXCEPT ![p] = {row}]
               /\ nextId' = nextId + 1
               /\ UNCHANGED res
    /\ UNCHANGED <<users, now, outbox, issued, resp, req, notes>>

\* send_activation_email of request p, then the end of its transaction and the response
RegSendMail(p, env) ==
    /\ pc[p] = "inserted"
    /\ LET data == req[p].data
           row == CHOOSE r \in txrow[p] : TRUE
       IN /\ users' = atomic_exit(users, row, env = "mail_raise")
          /\ outbox' = IF env = "mail_raise" THEN outbox
                                              ELSE outbox \cup {activation_mail(row, now)}
          /\ res' = [res EXCEPT ![p] =
                        IF env = "mail_raise"
                        THEN RegResp(data, 203, {"email"}, "Failed to send activation email", row.pk)
                        ELSE IF env = "smtp_down"
                        THEN RegResp(data, 201, {}, "created, mail lost", row.pk)
                        ELSE RegResp(data, 201, {}, "created", row.pk)]
    /\ pc' = [pc EXCEPT ![p] = "done"]
    /\ txrow' = [txrow EXCEPT ![p] = {}]
    /\ UNCHANGED <<nextId, now, issued, resp, req, notes>>

NextRace ==
    \/ \E p \in Procs, data \in RegData : RegValidate(p, data)
    \/ \E p \in Procs, fault \in BOOLEAN : RegInsert(p, fault)
    \/ \E p \in Procs, env \in Envs \ {"db_fault"} : RegSendMail(p, env)

SpecRace == Init /\ [][NextRace]_vars

\* the same system with credential changes
NextCred ==
    \/ Next
    \/ \E pk \in 1..MaxUsers, pw \in Passwords : SetPassword(pk, pw)

SpecCred == Init /\ [][NextCred]_vars

\* ------------------------------------------------ the token check on its own
\* user = None when the lookup failed (views.py:55)
NoUser == [pk |-> 0]

\* a call of ExpiringTokenGenerator.check_token(user, token) with any text as the token
CheckToken(user, token) ==
    /\ resp' = [op |-> "check_token", token |-> token,
                result |-> check_token_call(user, token, now)]
    /\ UNCHANGED <<users, nextId, now, outbox, issued, procVars, notes>>

NextToken ==
    \/ \E data \in RegData : Register(data, "ok")
    \/ \E pk \in 1..MaxUsers : MakeToken(pk)
    \/ \E user \in users \cup {NoUser}, token \in IssuedTokens \cup MalformedTokens \cup {ForgedToken} :
          CheckToken(user, token)
    \/ \E uidb64 \in Uids, token \in MalformedTokens : Activate(uidb64, token)
    \/ Tick

SpecToken == Init /\ [][NextToken]_vars

\* ------------------------------------- registration with flags in the body
NextFlags ==
    \/ \E data \in RegDataFlags, env \in Envs : Register(data, env)
    \/ Tick

SpecFlags == Init /\ [][NextFlags]_vars

\* ------------------------------------------- login with accounts of any kind
\* dict.setdefault on the keyword arguments
setdefault(extra_field, name, value) ==
    IF \E kv \in extra_field : kv[1] = name THEN extra_field
    ELSE extra_field \cup {<<name, value>>}

\* keyword arguments a caller of create_superuser may pass
SuperExtras == {{}, {<<"is_active", FALSE>>}, {<<"is_email_verify", FALSE>>},
                {<<"is_staff", FALSE>>}}

\* UserCustomManager.create_superuser: ValueError and IntegrityError leave the table as it is
CreateSuperuser(email, password, extra) ==
    /\ nextId <= MaxUsers
    /\ LET extra_field ==
               setdefault(setdefault(setdefault(setdefault(extra,
                   "is_staff", TRUE), "is_superuser", TRUE), "is_email_verify", TRUE),
                   "is_active", TRUE)
           row == create_user(email, password, extra_field, nextId, now)
       IN IF \/ ~flag_value(extra_field, "is_staff")
             \/ ~flag_value(extra_field, "is_superuser")
             \/ IntegrityError(users, row)
          THEN UNCHANGED <<users, nextId>>
          ELSE /\ users' = users \cup {row}
               /\ nextId' = nextId + 1
    /\ resp' = NoResp
    /\ UNCHANGED <<now, outbox, issued, procVars, notes>>

NextLogin ==
    \/ \E data \in RegData : Register(data, "ok")
    \/ \E email \in Emails, password \in Passwords, extra \in SuperExtras :
          CreateSuperuser(email, password, extra)
    \/ \E pk \in 1..MaxUsers : MakeToken(pk)
    \/ \E uidb64 \in Uids, token \in IssuedTokens : Activate(uidb64, token)
    \/ \E email \in Emails \cup {NoEmail, BadEmail},
          password \in Passwords \cup {NoPassword, ShortPassword} : Login(email, password)

SpecLogin == Init /\ [][NextLogin]_vars

\* ------------------------------------------------------------------ notes
\* Notes.NOTES_TYPE, first components
NOTES_TYPE == {"personal", "work", "other"}
\* the names Notes(**kwargs) accepts: the model's fields
NoteFields == {"id", "notes", "notes_type", "create_date", "created_by"}
\* arguments of create_note
NoteTexts == {"buy milk", "call Bob"}
NoteTypes == NOTES_TYPE \cup {"urgent", ""}
NoteFaults == {"ok", "OperationalError", "IntegrityError"}

\* cls.objects.create(**kwargs): Notes(**kwargs) raises TypeError on a keyword that is no
\* field; otherwise the INSERT, which a database fault fails.  The result is the exception
\* class, or "created" with the row.
objects_create(kwargs, id, t, fault) ==
    IF ~(DOMAIN kwargs \subseteq NoteFields) THEN [raised |-> "TypeError", row |-> {}]
    ELSE IF fault # "ok" THEN [raised |-> fault, row |-> {}]
    ELSE [raised |-> "created",
          row |-> {[id |-> id,
                    notes |-> IF "notes" \in DOMAIN kwargs THEN kwargs.notes ELSE "",
                    notes_type |-> IF "notes_type" \in DOMAIN kwargs
                                   THEN kwargs.notes_type ELSE "",
                    create_date |-> t,
                    created_by |-> kwargs.created_by]}]

\* create_note without its check of the type
create_note_unchecked(text, type, user, id, t, fault) ==
    LET r == objects_create([notes |-> text, type |-> type, created_by |-> user.pk],
                            id, t, fault)
    IN IF r.raised = "created" THEN r
       ELSE IF r.raised = "OperationalError" THEN r
       ELSE [raised |-> "Exception", row |-> {}]

\* Notes.create_note: the exception it raises, or "created" with the row it returns.
\* The first except clause names InterruptedError, so an IntegrityError of the INSERT falls
\* through to except Exception like every other exception.
create_note(text, type, user, id, t, fault) ==
    IF type \notin NOTES_TYPE THEN [raised |-> "ValueError", row |-> {}]
    ELSE LET r == objects_create([notes |-> text, type |-> type, created_by |-> user.pk],
                                 id, t, fault)
         IN IF r.raised = "created" THEN r
            ELSE IF r.raised = "OperationalError" THEN r
            ELSE [raised |-> "Exception", row |-> {}]

\* a call of Notes.create_note for a stored account
CreateNote(text, type, pk, fault) ==
    /\ Cardinality(notes) < MaxNotes
    /\ \E user \in users :
          /\ user.pk = pk
          /\ LET r == create_note(text, type, user, Cardinality(notes) + 1, now, fault)
             IN /\ notes' = notes \cup r.row
                /\ resp' = [op |-> "create_note", text |-> text, type |-> type,
                            owner |-> pk, fault |-> fault, result |-> r.raised,
                            returned |-> r.row]
    /\ UNCHANGED <<users, nextId, now, outbox, issued, procVars>>

NextNotes ==
    \/ \E data \in RegData : Register(data, "ok")
    \/ \E text \in NoteTexts, type \in NoteTypes, pk \in 1..MaxUsers, fault \in NoteFaults :
          CreateNote(text, type, pk, fault)
    \/ Tick

SpecNotes == Init /\ [][NextNotes]_vars

\* ================================================================ claims
\* the proof and the expiry instant inside a token make_token produced
Proof(token) == json_loads(urlsafe_b64decode(token)).token
ExpiresAt(token) == isoparse(json_loads(urlsafe_b64decode(token)).expires_at)
\* the proof still matches the account: it is what would be computed from the row now
ProofMatches(user, token) == Proof(token) = default_make_token(user, Body(Proof(token)).ts)
RowsOfUid(uidb64) == {u \in users : uid_encode(u.pk) = uidb64}

\* C1 (stated as the claim): the token registration mailed for an account, presented with
\* that account's id within one hour of its issuance, is accepted and leaves the account
\* active and email-verified.
C1_MailedTokenActivates ==
    (/\ resp.op = "activate"
     /\ \E m \in outbox : /\ m.uid = resp.uid
                          /\ m.token = resp.token
                          /\ now <= Body(m.token).ts + HOUR)
    => /\ resp.status = 200
       /\ \A u \in RowsOfUid(resp.uid) : u.is_active /\ u.is_email_verify

\* C2 (stated as the claim): a non-expired token minted for account A and presented with
\* the id of another stored account B is rejected.
C2_TokenBoundToAccount ==
    (/\ resp.op = "activate"
     /\ RowsOfUid(resp.uid) # {}
     /\ \E i \in issued : /\ i.token = resp.token
                          /\ uid_encode(i.user) # resp.uid
                          /\ now <= i.at + HOUR)
    => resp.status = 400

\* C3: a token issued at time a carries the expiry a + HOUR; a check after the expiry is
\* false for every account, a check at or before it is true for the account whose state
\* the proof matches; the activation endpoint answers accordingly.
C3_ExpiryBoundary ==
    \A i \in issued :
       /\ ExpiresAt(i.token) = i.at + HOUR
       /\ \A u \in users :
             /\ now > ExpiresAt(i.token) => ~check_token(u, i.token, now)
             /\ (now <= ExpiresAt(i.token) /\ ProofMatches(u, i.token))
                   => check_token(u, i.token, now)
       /\ (resp.op = "activate" /\ resp.token = i.token /\ RowsOfUid(resp.uid) # {})
             => /\ now > ExpiresAt(i.token) => resp.status = 400
                /\ (/\ now <= ExpiresAt(i.token)
                    /\ \E u \in RowsOfUid(resp.uid) : ProofMatches(u, i.token))
                      => resp.status = 200

\* C3 witness: an issued token presented exactly at its expiry instant and accepted
C3_Witness ==
    \E i \in issued : /\ resp.op = "activate"
                      /\ resp.token = i.token
                      /\ resp.uid = uid_encode(i.user)
                      /\ now = ExpiresAt(i.token)
                      /\ resp.status = 200

\* C4: for every stored account, the token make_token produces for it now is accepted by
\* check_token for it now; a logged make_token result is accepted at its issuance time.
C4_RoundTrip ==
    /\ \A u \in users : check_token(u, make_token(u, now), now)
    /\ \A i \in issued : i.at = now => \A u \in users : u.pk = i.user => check_token(u, i.token, now)

\* C4 witness: a token was issued for an account and accepted for it at the same instant
C4_Witness ==
    \E i \in issued : /\ i.at = now
                      /\ resp.op = "activate"
                      /\ resp.token = i.token
                      /\ resp.uid = uid_encode(i.user)
                      /\ resp.status = 200

\* C5 (stated as the claim): a token issued for an account is rejected once the account's
\* password is no longer the one the token was issued under.
C5_CredentialChangeInvalidates ==
    (/\ resp.op = "activate"
     /\ \E i \in issued : /\ i.token = resp.token
                          /\ resp.uid = uid_encode(i.user)
                          /\ \E u \in users : /\ u.pk = i.user
                                              /\ u.password # Body(Proof(i.token)).pwd)
    => resp.status = 400

\* C6 (stated as the claim): a token that has just activated its account does not succeed
\* when it is presented for that account again.
C6_SingleUse ==
    (resp.op = "activate" /\ resp.again /\ resp.token \in IssuedTokens) => resp.status # 200

\* the requests that got as far as the write, and how they ended
Finished(p) == pc[p] = "done" /\ res[p].cause # "invalid"
Created(p) == res[p].status = 201
Duplicate(p) == res[p].cause = "Email is Already exists"
Unfaulted(p) == res[p].cause \notin {"Something went wrong", "Failed to send activation email"}
SameAddress(p, q) == normalize_email(req[p].data.email) = normalize_email(req[q].data.email)
Raced(p, q) == p # q /\ req[p].raced /\ req[q].raced /\ SameAddress(p, q)
RowCount(address) == Cardinality({u \in users : u.email = address})

C8_LoginGated ==
    /\ \A email \in Emails \cup {NoEmail}, password \in Passwords \cup {NoPassword} :
          \A tk \in login_create(users, email, password) :
             \E u \in users : /\ u.email = email
                              /\ check_password(password, u.password)
                              /\ u.is_active /\ u.is_email_verify
                              /\ tk = session_tokens(u)
    /\ resp.op = "login" =>
          /\ resp.tokens = login_create(users, resp.email, resp.password)
          /\ resp.status = 202 <=> resp.tokens # {}
          /\ resp.outcome = "ok" <=> resp.tokens # {}

\* C8 witness: a login that returned tokens
C8_Witness == resp.op = "login" /\ resp.tokens # {} /\ resp.status = 202

\* C9 (stated as the claim): login with the right email and password on an account with
\* is_active and is_email_verify both false fails with the "verify your email" failure.
C9_PendingLoginSaysVerify ==
    (/\ resp.op = "login"
     /\ \E u \in users : /\ u.email = resp.email
                         /\ check_password(resp.password, u.password)
                         /\ ~u.is_active /\ ~u.is_email_verify)
    => resp.outcome = "unverified"

\* C10 (stated as the claim): when the activation-email step fails after the row was
\* created, the row stays stored, inactive and unverified.
C10_RowKeptOnMailFailure ==
    (resp.op = "register" /\ resp.cause = "Failed to send activation email")
    => \E u \in users : u.pk = resp.pk /\ ~u.is_active /\ ~u.is_email_verify

\* C10 (amended): when the activation-email step raises after the row was created,
\* registration reports status 203 with an error keyed on email, and the row is rolled
\* back with the transaction: no stored row has its key or its address, and no mail for it
\* is in the outbox.
C10_RowRolledBackOnMailFailure ==
    (resp.op = "register" /\ resp.cause = "Failed to send activation email")
    => /\ resp.status = 203
       /\ resp.errors = {"email"}
       /\ resp.pk >= 1
       /\ ~\E u \in users : u.pk = resp.pk \/ u.email = normalize_email(resp.data.email)
       /\ ~\E m \in outbox : m.uid = uid_encode(resp.pk)

\* C10 witness: a registration whose email step raised after its INSERT
C10_Witness ==
    /\ resp.op = "register"
    /\ resp.cause = "Failed to send activation email"
    /\ resp.pk >= 1

\* the last step was a registration whose send_mail call met a failing mail transport
TransportFailed == resp.op = "register" /\ resp.cause = "created, mail lost"

\* C11 (stated as the claim): when the mail transport fails while the activation email is
\* being sent, registration reports a validation failure (status 203 with errors) and does
\* not report success.
C11_TransportFailureReported ==
    TransportFailed => (resp.status = 203 /\ resp.errors # {})

\* C12: check_token is total on untrusted input.  Every call returns a boolean and lets no
\* exception out; for text that is not base64, base64 of text that is not JSON, a payload
\* without 'token' or without 'expires_at', and an expiry that does not parse or carries no
\* UTC offset, the result is False whatever the account and the instant, and the activation
\* endpoint answers 400 on such a token.
C12_CheckTokenTotal ==
    /\ \A user \in users \cup {NoUser}, token \in MalformedTokens :
          check_token_call(user, token, now) = "False"
    /\ resp.op = "check_token" => resp.result \in {"True", "False"}
    /\ (resp.op = "check_token" /\ resp.token \in MalformedTokens) => resp.result = "False"
    /\ (resp.op = "activate" /\ resp.token \in MalformedTokens) => resp.status = 400

\* C12 witness: check_token was called, with an account stored, on a payload whose expiry
\* carries no UTC offset, and returned False
C12_Witness ==
    /\ users # {}
    /\ resp.op = "check_token"
    /\ resp.token = NaiveExpiry
    /\ resp.result = "False"

\* a token that decodes down to a payload with a proof and a parsable, offset-carrying expiry
WellFormed(token) == check_token_try(token, 0) \in {"True", "False"}
\* a token text that is a valid, unexpired activation token of the row at instant t
ValidFor(user, token, t) ==
    /\ WellFormed(token)
    /\ Tag(Proof(token)) = "dj"
    /\ ProofMatches(user, token)
    /\ t <= ExpiresAt(token)
\* an activation link that must fail: its account id decodes to no stored account, or its
\* token is malformed, expired, or not a valid token of that account
BadLink(rows, uidb64, token, t) ==
    \A user \in {u \in rows : uid_encode(u.pk) = uidb64} : ~ValidFor(user, token, t)

\* C13 (stated as the claim): a request to the activation endpoint with an invalid, expired
\* or malformed token, or an undecodable or unknown account id, is answered with status 400
\* "Activation link is invalid", and leaves every stored account as it was.
C13_FailureUniform ==
    [][(resp'.op = "activate" /\ BadLink(users, resp'.uid, resp'.token, now))
       => (resp'.status = 400 /\ users' = users)]_vars

\* C14: immediately after a successful registration the new account is stored with
\* is_active, is_email_verify, is_staff and is_superuser all false, whatever the request
\* body carried for those flags.
C14_StartsPending ==
    (resp.op = "register" /\ resp.status = 201)
    => \E u \in users : /\ u.pk = resp.pk
                        /\ ~u.is_active
                        /\ ~u.is_email_verify
                        /\ ~u.is_staff
                        /\ ~u.is_superuser

\* C14 witness: a successful registration whose body set all four flags to true
C14_Witness ==
    /\ resp.op = "register"
    /\ resp.status = 201
    /\ resp.data.extra = AllFlagsTrue
    /\ \E u \in users : u.pk = resp.pk

\* an address with the letters of both parts lowercased, and with those of the domain only
casefold(e) == <<IF e[1] = "A" THEN "a" ELSE e[1], Lower(e[2])>>
domainfold(e) == <<e[1], Lower(e[2])>>
\* request p has returned a response
Answered(p) == pc[p] = "done"
\* request p was refused as a duplicate: by the existence check, or by the unique constraint
RefusedAsDuplicate(p) ==
    /\ Answered(p)
    /\ \/ Duplicate(p)
       \/ res[p].cause = "invalid" /\ "email" \in res[p].errors /\ res[p].data.email # NoEmail

\* C15 (stated as the claim): in every reachable state no two stored accounts have the same
\* case-normalized email.
C15_UniqueCaseNormalized ==
    \A u, v \in users : casefold(u.email) = casefold(v.email) => u = v

\* C15 (amended): in every reachable state, after any interleaving of registrations, no two
\* stored accounts have the same email once the domain part is lowercased, and every stored
\* email has a lowercased domain; a request that created an account is the only holder of
\* its domain-lowercased address; and a request is refused as a duplicate only when a
\* stored account has its address up to the letter case of the domain (the local part is
\* compared as typed).
C15_UniqueDomainNormalized ==
    /\ \A u, v \in users : domainfold(u.email) = domainfold(v.email) => u = v
    /\ \A u \in users : u.email = domainfold(u.email)
    /\ \A p \in Procs :
          /\ (Answered(p) /\ Created(p))
                => \A u \in users :
                      domainfold(u.email) = domainfold(res[p].data.email) => u.pk = res[p].pk
          /\ RefusedAsDuplicate(p)
                => \E u \in users : u.email = domainfold(res[p].data.email)

\* C15 witness: with a@x.com stored, a registration of a@X.COM was refused as a duplicate
C15_Witness ==
    /\ \E u \in users : u.email = <<"a", "x.com">>
    /\ \E p \in Procs : /\ RefusedAsDuplicate(p)
                        /\ res[p].data.email = <<"a", "X.COM">>
                        /\ res[p].status = 203

\* the last step was a registration whose password and confirmation differ
Mismatch == resp.op = "register" /\ resp.data.password # resp.data.password2

\* C16 (stated as the claim): whenever password and confirmation differ, registration fails
\* with an error keyed on the confirmation field and creates no account, also when the
\* password is weak or the email is taken.
C16_MismatchKeyedOnConfirmation ==
    Mismatch => /\ resp.status = 203
                /\ "password2" \in resp.errors
                /\ resp.pk = 0

\* C16 (amended): whenever password and confirmation differ, registration fails with status
\* 203 and field errors and inserts no row; the error is keyed on the confirmation field
\* exactly when the email is present and not taken and the password passes the password
\* validators, and is keyed on email and/or password (not on the confirmation) otherwise.
C16_MismatchFails ==
    Mismatch =>
       LET emailOk == resp.data.email # NoEmail /\ UniqueValidator(users, resp.data.email)
           passwordOk == validate_password(resp.data.password)
       IN /\ resp.status = 203
          /\ resp.cause = "invalid"
          /\ resp.pk = 0
          /\ (emailOk /\ passwordOk) => resp.errors = {"password2"}
          /\ ~(emailOk /\ passwordOk)
                => /\ "password2" \notin resp.errors
                   /\ "email" \in resp.errors <=> ~emailOk
                   /\ "password" \in resp.errors <=> ~passwordOk

\* C16 witness: a registration with differing passwords, a strong password and a free
\* email was refused on the confirmation field while another account was stored
C16_Witness ==
    /\ Mismatch
    /\ users # {}
    /\ resp.errors = {"password2"}
    /\ resp.status = 203

\* the last step was a login whose email and password are both present
LoginPresent == resp.op = "login" /\ resp.email # NoEmail /\ resp.password # NoPassword
\* an account is stored under the email of the last login
AccountExists == \E u \in users : u.email = resp.email

\* C17 (stated as the claim): a login with an address for which no account exists fails with
\* "account not found" for every password value, and a login to an existing account with a
\* wrong password fails with "invalid credentials".
C17_NotFoundForEveryPassword ==
    /\ (LoginPresent /\ EmailField(resp.email) /\ ~AccountExists) => resp.outcome = "not_found"
    /\ (LoginPresent /\ \E u \in users : /\ u.email = resp.email
                                         /\ ~check_password(resp.password, u.password))
          => resp.outcome = "invalid"

\* C17 (amended): a login whose email is a well-formed address and whose password has at
\* least 8 characters fails with "account not found" (status 400, no tokens) when no account
\* is stored under that email, whatever the password, and with the distinct "invalid
\* credentials" when the account exists and the password is wrong; a malformed email or a
\* shorter password fails field validation instead, whether or not the account exists.
C17_NotFoundBeforeCredentials ==
    LoginPresent =>
       IF EmailField(resp.email) /\ Len(resp.password) >= MinLength
       THEN /\ ~AccountExists
               => (resp.outcome = "not_found" /\ resp.status = 400 /\ resp.tokens = {})
            /\ (\E u \in users : /\ u.email = resp.email
                                 /\ ~check_password(resp.password, u.password))
               => (resp.outcome = "invalid" /\ resp.status = 400 /\ resp.tokens = {})
       ELSE resp.outcome = "field_error" /\ resp.status = 400 /\ resp.tokens = {}

\* C17 witness: a login with an email of no account, and a password that is the right one
\* of a stored account, was answered "account not found"
C17_Witness ==
    /\ LoginPresent
    /\ ~AccountExists
    /\ \E u \in users : check_password(resp.password, u.password)
    /\ resp.outcome = "not_found"

\* C18 (stated as the claim): a login with the correct password to an account that is
\* email-verified but not active is rejected with "deactivated".
C18_InactiveSaysDeactivated ==
    (/\ resp.op = "login"
     /\ \E u \in users : /\ u.email = resp.email
                         /\ check_password(resp.password, u.password)
                         /\ u.is_email_verify /\ ~u.is_active)
    => resp.outcome = "deactivated"

\* C19: create_note with a type outside personal, work, other raises ValueError and persists
\* nothing: it returns no row, and no stored note has a type outside the enumeration.
C19_InvalidTypeRejected ==
    /\ (resp.op = "create_note" /\ resp.type \notin {"personal", "work", "other"})
          => /\ resp.result = "ValueError"
             /\ resp.returned = {}
    /\ \A n \in notes : n.notes_type \in {"personal", "work", "other"}

\* C19 witness: create_note was called for a stored account with the type "urgent" and
\* raised ValueError
C19_Witness ==
    /\ resp.op = "create_note"
    /\ resp.type = "urgent"
    /\ resp.result = "ValueError"
    /\ \E u \in users : u.pk = resp.owner

\* C20 (stated as the claim): create_note with a type of the enumeration, for a stored
\* owner and without a persistence fault, returns the note and has stored exactly one row
\* with that text, type and owner.
C20_ValidNoteStored ==
    (/\ resp.op = "create_note"
     /\ resp.type \in {"personal", "work", "other"}
     /\ resp.fault = "ok"
     /\ \E u \in users : u.pk = resp.owner)
    => /\ resp.result = "created"
       /\ \E n \in resp.returned :
             /\ n \in notes
             /\ n.notes = resp.text
             /\ n.notes_type = resp.type
             /\ n.created_by = resp.owner
       /\ Cardinality(resp.returned) = 1

\* C21: a successful activation changes only is_active and is_email_verify of the addressed
\* account, both to true; that account's key, email, password hash, is_staff, is_superuser
\* and date_joined, and every other account, are as they were before the request.
C21_ActivationFrame ==
    [][(resp'.op = "activate" /\ resp'.status = 200)
       => \E u \in users :
             /\ uid_encode(u.pk) = resp'.uid
             /\ \E v \in users' :
                   /\ users' \ {v} = users \ {u}
                   /\ v.pk = u.pk
                   /\ v.email = u.email
                   /\ v.password = u.password
                   /\ v.is_staff = u.is_staff
                   /\ v.is_superuser = u.is_superuser
                   /\ v.date_joined = u.date_joined
                   /\ v.is_active
                   /\ v.is_email_verify]_vars

\* C21 witness: an account with the staff and superuser flags, stored next to another
\* account, was activated by the last request
C21_Witness ==
    /\ resp.op = "activate"
    /\ resp.status = 200
    /\ ~resp.again
    /\ Cardinality(users) >= 2
    /\ \E u \in users : /\ uid_encode(u.pk) = resp.uid
                        /\ u.is_staff /\ u.is_superuser
                        /\ u.is_active /\ u.is_email_verify
    /\ \E u \in users : uid_encode(u.pk) # resp.uid /\ ~u.is_active

\* the step is a registration whose INSERT met a fault other than the unique constraint
CreateFaulted == resp'.op = "register" /\ resp'.cause = "Something went wrong"

\* C22 (stated as the claim): a persistence fault of the account-creating write, other than
\* a unique-constraint violation, is answered as an internal failure (status 400 with a
\* generic message and no validation errors), and leaves no account row.
C22_FaultIsInternalFailure ==
    [][CreateFaulted => (resp'.status = 400 /\ resp'.errors = {} /\ users' = users)]_vars

\* C22 (amended): such a fault is answered in the same step, without a second attempt, as a
\* validation failure: status 203 with the non-field error "Something went wrong", which
\* differs from the duplicate-email failure only in its message; no row is stored, no key is
\* consumed and no mail is sent.
C22_FaultIsValidationFailure ==
    [][CreateFaulted => /\ resp'.status = 203
                        /\ resp'.errors = {"non_field_errors"}
                        /\ resp'.pk = 0
                        /\ users' = users
                        /\ nextId' = nextId
                        /\ outbox' = outbox]_vars

\* C22 witness: with an account stored, a registration that passed validation met a fault
\* of its INSERT
C22_Witness ==
    /\ resp.op = "register"
    /\ resp.cause = "Something went wrong"
    /\ users # {}
    /\ is_valid_errors(users, resp.data) = {}

\* C23: over any sequence of register, activate and login requests, no account's is_active
\* or is_email_verify goes from true to false and no account disappears; is_active and
\* is_email_verify are equal on every stored account (all are created by register); and a
\* login, accepted or refused, leaves every account as it was.
C23_FlagsMonotone ==
    [][/\ \A u \in users :
             \E v \in users' : /\ v.pk = u.pk
                               /\ u.is_active => v.is_active
                               /\ u.is_email_verify => v.is_email_verify
       /\ \A v \in users' : v.is_active = v.is_email_verify
       /\ resp'.op = "login" => users' = users]_vars

\* C23 witness: an activated account has just logged in successfully while another account
\* is still pending
C23_Witness ==
    /\ resp.op = "login"
    /\ resp.status = 202
    /\ \E u \in users : u.email = resp.email /\ u.is_active /\ u.is_email_verify
    /\ \E u \in users : ~u.is_active /\ ~u.is_email_verify

====
